---- MODULE Spec2Model ----
(***************************************************************************)
(* A model of the keybroker server (rust-keybroker/keybroker-server): the  *)
(* Challenger table, the KeyStore, the Veraison verification exchange and  *)
(* the two request handlers request_key and submit_evidence, which run     *)
(* concurrently on the shared, mutex-guarded server state.                 *)
(***************************************************************************)
EXTENDS Naturals, Sequences, FiniteSets, TLC

(***************************************************************************)
(* Bounds of the model.                                                    *)
(***************************************************************************)
\* Number of HTTP requests the server receives in one behaviour.
MaxRequests == 3
\* Number of nonzero values the random id generator can draw.
MaxId == 2

Requests == 1..MaxRequests

(***************************************************************************)
(* u32 challenge identifiers.  The generator draws 0 or one of MaxId       *)
(* nonzero values spread over the non-negative 32-bit signed integers      *)
(* (below 2^31), so that identifiers have up to ten decimal digits.        *)
(***************************************************************************)
IdOf(k) == (k * 536870911) % 2147483647
IdSpace == {0} \cup {IdOf(k) : k \in 1..MaxId}

(***************************************************************************)
(* std::result::Result values.                                             *)
(***************************************************************************)
Ok(v) == [ok |-> TRUE, val |-> v]
Err(e) == [ok |-> FALSE, err |-> e]

(***************************************************************************)
(* Byte strings and the URL_SAFE_NO_PAD base64 engine.  A text string is a *)
(* sequence of one-character strings, a byte string a sequence of 0..255.  *)
(***************************************************************************)
URL_SAFE_ALPHABET ==
    << "A","B","C","D","E","F","G","H","I","J","K","L","M","N","O","P",
       "Q","R","S","T","U","V","W","X","Y","Z","a","b","c","d","e","f",
       "g","h","i","j","k","l","m","n","o","p","q","r","s","t","u","v",
       "w","x","y","z","0","1","2","3","4","5","6","7","8","9","-","_" >>

\* The engine's decode table: the value of every symbol of the alphabet.
DecodeTable ==
    ("A" :> 0) @@ ("B" :> 1) @@ ("C" :> 2) @@ ("D" :> 3) @@ ("E" :> 4) @@ ("F" :> 5)
    @@ ("G" :> 6) @@ ("H" :> 7) @@ ("I" :> 8) @@ ("J" :> 9) @@ ("K" :> 10) @@ ("L" :> 11)
    @@ ("M" :> 12) @@ ("N" :> 13) @@ ("O" :> 14) @@ ("P" :> 15) @@ ("Q" :> 16) @@ ("R" :> 17)
    @@ ("S" :> 18) @@ ("T" :> 19) @@ ("U" :> 20) @@ ("V" :> 21) @@ ("W" :> 22) @@ ("X" :> 23)
    @@ ("Y" :> 24) @@ ("Z" :> 25) @@ ("a" :> 26) @@ ("b" :> 27) @@ ("c" :> 28) @@ ("d" :> 29)
    @@ ("e" :> 30) @@ ("f" :> 31) @@ ("g" :> 32) @@ ("h" :> 33) @@ ("i" :> 34) @@ ("j" :> 35)
    @@ ("k" :> 36) @@ ("l" :> 37) @@ ("m" :> 38) @@ ("n" :> 39) @@ ("o" :> 40) @@ ("p" :> 41)
    @@ ("q" :> 42) @@ ("r" :> 43) @@ ("s" :> 44) @@ ("t" :> 45) @@ ("u" :> 46) @@ ("v" :> 47)
    @@ ("w" :> 48) @@ ("x" :> 49) @@ ("y" :> 50) @@ ("z" :> 51) @@ ("0" :> 52) @@ ("1" :> 53)
    @@ ("2" :> 54) @@ ("3" :> 55) @@ ("4" :> 56) @@ ("5" :> 57) @@ ("6" :> 58) @@ ("7" :> 59)
    @@ ("8" :> 60) @@ ("9" :> 61) @@ ("-" :> 62) @@ ("_" :> 63)

\* The six bits a symbol stands for, 64 for a symbol outside the alphabet.
Sextet(c) == IF c \in DOMAIN DecodeTable THEN DecodeTable[c] ELSE 64

RECURSIVE EncodeFrom(_, _)
EncodeFrom(bytes, i) ==
    LET n == Len(bytes) - i + 1
        ch(v) == URL_SAFE_ALPHABET[v + 1]
    IN  IF n <= 0 THEN << >>
        ELSE IF n = 1 THEN
            << ch(bytes[i] \div 4), ch((bytes[i] % 4) * 16) >>
        ELSE IF n = 2 THEN
            << ch(bytes[i] \div 4),
               ch((bytes[i] % 4) * 16 + bytes[i+1] \div 16),
               ch((bytes[i+1] % 16) * 4) >>
        ELSE
            << ch(bytes[i] \div 4),
               ch((bytes[i] % 4) * 16 + bytes[i+1] \div 16),
               ch((bytes[i+1] % 16) * 4 + bytes[i+2] \div 64),
               ch(bytes[i+2] % 64) >> \o EncodeFrom(bytes, i + 3)

\* URL_SAFE_NO_PAD.encode
URL_SAFE_NO_PAD_encode(bytes) == EncodeFrom(bytes, 1)

RECURSIVE DecodeFrom(_, _)
DecodeFrom(text, i) ==
    LET n == Len(text) - i + 1
        s(k) == Sextet(text[i + k])
    IN  IF n <= 0 THEN << >>
        ELSE IF n = 2 THEN
            << s(0) * 4 + s(1) \div 16 >>
        ELSE IF n = 3 THEN
            << s(0) * 4 + s(1) \div 16, (s(1) % 16) * 16 + s(2) \div 4 >>
        ELSE
            << s(0) * 4 + s(1) \div 16,
               (s(1) % 16) * 16 + s(2) \div 4,
               (s(2) % 4) * 64 + s(3) >> \o DecodeFrom(text, i + 4)

\* URL_SAFE_NO_PAD.decode: rejects a symbol outside the alphabet (padding
\* included), an impossible length and non-zero trailing bits.
URL_SAFE_NO_PAD_decode(text) ==
    LET n == Len(text) IN
    IF \/ \E i \in 1..n : Sextet(text[i]) = 64
       \/ n % 4 = 1
       \/ (n % 4 = 2 /\ Sextet(text[n]) % 16 # 0)
       \/ (n % 4 = 3 /\ Sextet(text[n]) % 4 # 0)
    THEN Err("Base64Decode")
    ELSE Ok(DecodeFrom(text, 1))

\* format!("{}", n) of an unsigned integer.
RECURSIVE ToDecimal(_)
ToDecimal(n) ==
    LET digit(d) == URL_SAFE_ALPHABET[53 + d]
    IN  IF n < 10 THEN << digit(n) >>
        ELSE Append(ToDecimal(n \div 10), digit(n % 10))

\* str::parse::<u32>() of a path segment: decimal digits only, at most ten
\* of them (the values from 2^31 on do not occur in the model).
RECURSIVE DecimalValue(_, _)
DecimalValue(text, n) ==
    IF n = 0 THEN 0
    ELSE DecimalValue(text, n - 1) * 10 + (Sextet(text[n]) - 52)

ParseU32(text) ==
    IF \/ Len(text) = 0
       \/ Len(text) > 10
       \/ \E i \in 1..Len(text) : Sextet(text[i]) < 52 \/ Sextet(text[i]) > 61
    THEN Err("ParseIntError")
    ELSE Ok(DecimalValue(text, Len(text)))

\* BigUint::from_bytes_be.  A BigUint is kept as its big-endian bytes without
\* leading zeros, since the moduli are far wider than 32 bits.
RECURSIVE FromBytesBE(_)
FromBytesBE(bytes) ==
    IF Len(bytes) > 0 /\ bytes[1] = 0 THEN FromBytesBE(Tail(bytes)) ELSE bytes

\* BigUint::to_bytes_be
to_bytes_be(big) == IF Len(big) = 0 THEN << 0 >> ELSE big

\* BigUint::bits
Bits(big) ==
    IF Len(big) = 0 THEN 0
    ELSE 8 * (Len(big) - 1)
         + (CHOOSE w \in 1..8 : big[1] \div (2 ^ (w - 1)) > 0 /\ big[1] \div (2 ^ w) = 0)

(***************************************************************************)
(* keybroker-common: the wrapping keys clients present.                    *)
(***************************************************************************)
PublicWrappingKey(kty, alg, n, e) == [kty |-> kty, alg |-> alg, n |-> n, e |-> e]

\* RsaPrivateKey::new(&mut rng, bits): an ephemeral key pair.  Of the modulus
\* only the width matters to the model, and that it is odd with its top bit
\* set; the public exponent is 65537.  The private half stays with the client.
RsaPrivateKey_new(bits) ==
    [n |-> [i \in 1..(bits \div 8) |->
               IF i = 1 THEN 201 ELSE IF i = bits \div 8 THEN 149 ELSE 77],
     e |-> << 1, 0, 1 >>,
     private |-> TRUE]

\* RsaPublicKey::from(&priv_key)
RsaPublicKey_from(priv_key) == [n |-> priv_key.n, e |-> priv_key.e]

\* The key pairs clients hold: of 1024 bits, as in the round-trip tests of the
\* key store, and of 512 bits.
ClientKey == RsaPrivateKey_new(1024)
ShortClientKey == RsaPrivateKey_new(512)

\* base64url of the modulus and of the exponent of the client's public key.
ModulusText == URL_SAFE_NO_PAD_encode(to_bytes_be(RsaPublicKey_from(ClientKey).n))
ExponentText == URL_SAFE_NO_PAD_encode(to_bytes_be(RsaPublicKey_from(ClientKey).e))

RsaOaepKey == PublicWrappingKey("RSA", "RSA-OAEP", ModulusText, ExponentText)
RsaPkcsKey == PublicWrappingKey("RSA", "RSA1_5", ModulusText, ExponentText)
EcKey == PublicWrappingKey("EC", "RSA-OAEP", ModulusText, ExponentText)

\* The wrapping keys the requests of the model carry.
WrappingKeys == {RsaOaepKey, EcKey}

NoKey == PublicWrappingKey("", "", << >>, << >>)

(***************************************************************************)
(* challenge.rs: Challenge and Challenger.                                 *)
(***************************************************************************)
CCA_EXAMPLE_TOKEN_NONCE ==
    << 110, 134, 214, 217, 124, 199, 19, 188, 109, 212, 61, 188, 228, 145, 166, 180,
       3, 17, 192, 39, 168, 191, 133, 163, 157, 166, 62, 156, 228, 76, 19, 42,
       138, 17, 157, 41, 111, 174, 106, 105, 153, 233, 191, 62, 68, 113, 176, 206,
       1, 36, 93, 136, 148, 36, 195, 30, 137, 121, 59, 59, 29, 107, 21, 4 >>

\* Length of a randomly generated nonce.
NonceLen == 64

\* The byte patterns rng.fill can produce in the model.
RandomBytes == {0, 171}
RandomNonces == {[i \in 1..NonceLen |-> b] : b \in RandomBytes}

Challenge(challenge_id, key_id, wrapping_key, challenge_value) ==
    [challenge_id |-> challenge_id, key_id |-> key_id,
     wrapping_key |-> wrapping_key, challenge_value |-> challenge_value]

NoChallenge == Challenge(0, "", NoKey, << >>)

\* Challenger::new: an empty table.
Challenger_new == << >>

\* Mutation of Nonces: the mock flag is ignored and every nonce is drawn.
Nonces_AlwaysRandom(mock) == RandomNonces

\* The nonces create_challenge can give a challenge.
Nonces(mock) == IF mock THEN {CCA_EXAMPLE_TOKEN_NONCE} ELSE RandomNonces

\* Mutation of FreshIds: the loop throws out zero only, not the live ids.
FreshIds_NonZero(table) == {i \in IdSpace : i # 0}

\* The draws of the id generator on which the retry loop of create_challenge
\* exits: not zero and not the key of a live challenge.
FreshIds(table) == {i \in IdSpace : ~(i = 0 \/ i \in DOMAIN table)}

\* HashMap::insert
Insert(table, k, v) == [x \in DOMAIN table \cup {k} |-> IF x = k THEN v ELSE table[x]]

\* Mutation of Remove: the entry stays in the map.
Remove_Nothing(table, k) == table

\* HashMap::remove
Remove(table, k) == [x \in DOMAIN table \ {k} |-> table[x]]

\* Mutation of create_challenge: the challenge is not bound to the key asked for.
create_challenge_Unbound(table, key_id, wrapping_key, challenge_id, nonce) ==
    LET challenge == Challenge(challenge_id, "", wrapping_key, nonce)
    IN  [table |-> Insert(table, challenge_id, challenge), challenge |-> challenge]

\* Mutation of create_challenge: the challenge is returned and never stored.
create_challenge_NoInsert(table, key_id, wrapping_key, challenge_id, nonce) ==
    [table |-> table,
     challenge |-> Challenge(challenge_id, key_id, wrapping_key, nonce)]

\* Challenger::create_challenge, for the draw challenge_id that ended the loop
\* and the nonce drawn: the new table and the challenge returned.
create_challenge(table, key_id, wrapping_key, challenge_id, nonce) ==
    LET challenge == Challenge(challenge_id, key_id, wrapping_key, nonce)
    IN  [table |-> Insert(table, challenge_id, challenge), challenge |-> challenge]

\* Mutation of get_challenge: a missing entry is answered with an empty challenge.
get_challenge_OrDefault(table, challenge_id) ==
    IF challenge_id \in DOMAIN table THEN Ok(table[challenge_id]) ELSE Ok(NoChallenge)

\* Challenger::get_challenge
get_challenge(table, challenge_id) ==
    IF challenge_id \in DOMAIN table
    THEN Ok(table[challenge_id])
    ELSE Err("ChallengeNotFound")

\* Mutation of delete_challenge: it reports success and removes nothing.
delete_challenge_Keeps(table, challenge_id) ==
    IF challenge_id \in DOMAIN table
    THEN [table |-> table, result |-> Ok("unit")]
    ELSE [table |-> table, result |-> Err("ChallengeNotFound")]

\* Challenger::delete_challenge: the new table and the result.
delete_challenge(table, challenge_id) ==
    IF challenge_id \in DOMAIN table
    THEN [table |-> Remove(table, challenge_id), result |-> Ok("unit")]
    ELSE [table |-> table, result |-> Err("ChallengeNotFound")]

(***************************************************************************)
(* keystore.rs: KeyStore.                                                  *)
(***************************************************************************)
RSA_KEY_TYPE == "RSA"
RSA_PKCS15_ALGORITHM == "RSA1_5"
RSA_OAEP_ALGORITHM == "RSA-OAEP"

\* "May the force be with you."
SkywalkerSecret ==
    << 77, 97, 121, 32, 116, 104, 101, 32, 102, 111, 114, 99, 101, 32,
       98, 101, 32, 119, 105, 116, 104, 32, 121, 111, 117, 46 >>

\* The key identifiers requests name; main stores only "skywalker".
KeyIds == {"skywalker", "vader"}

\* KeyStore::new
KeyStore_new == [k \in {} |-> << >>]

\* KeyStore::store_key
store_key(store, key_id, secret) == Insert(store, key_id, secret)

\* The values thread_rng can contribute to one encryption.
Randomness == {1, 2}

\* Smallest public exponent RsaPublicKey::new accepts.
MinPubExponent == 2

\* RsaPublicKey::new(n, e): the rsa crate refuses a modulus of more than 4096
\* bits, an exponent below 2 and an exponent above 2^33 - 1.
RsaPublicKey_new(n, e) ==
    IF Bits(n) > 4096 THEN Err("Rsa")
    ELSE IF Len(e) = 0 \/ (Len(e) = 1 /\ e[1] < MinPubExponent) THEN Err("Rsa")
    ELSE IF Len(e) > 5 \/ (Len(e) = 5 /\ e[1] > 1) THEN Err("Rsa")
    ELSE Ok([n |-> n, e |-> e])

\* PublicKeyParts::size: the length of the modulus in bytes.
Size(rsa_pub_key) == (Bits(rsa_pub_key.n) + 7) \div 8

\* The bytes a padding scheme adds to the message: 11 for PKCS#1 v1.5,
\* 2 * 32 + 2 for OAEP with SHA-256.
Overhead(padding) == IF padding = "Pkcs1v15Encrypt" THEN 11 ELSE 66

\* Mutation of encrypt: the message is passed on under no cipher at all.
encrypt_Cleartext(rsa_pub_key, rnd, padding, msg) ==
    Ok([cipher |-> "none", n |-> rsa_pub_key.n, e |-> rsa_pub_key.e,
        padding |-> padding, rnd |-> rnd, msg |-> msg])

\* RsaPublicKey::encrypt: a message that does not fit the modulus with its
\* padding is refused.  The ciphertext is kept symbolic; it names the key, the
\* padding scheme, the randomness and the message it encrypts.
encrypt(rsa_pub_key, rnd, padding, msg) ==
    IF Len(msg) + Overhead(padding) > Size(rsa_pub_key)
    THEN Err("Rsa")
    ELSE Ok([cipher |-> "RSA", n |-> rsa_pub_key.n, e |-> rsa_pub_key.e,
             padding |-> padding, rnd |-> rnd, msg |-> msg])

\* Mutation of EncodeCiphertext: the standard engine, with padding, is used.
EncodeCiphertext_Standard(ct) == [encoding |-> "base64-standard", bytes |-> ct]

\* URL_SAFE_NO_PAD.encode of a ciphertext.
EncodeCiphertext(ct) == [encoding |-> "base64url-nopad", bytes |-> ct]

WrappedKeyData(data_base64) == [data |-> data_base64]

\* Mutation of after_wrap_key: the entry that was wrapped is taken out.
after_wrap_key_Evicts(store, key_id) ==
    [k \in DOMAIN store \ {key_id} |-> store[k]]

\* The store after wrap_key(&self, ...): the borrow is immutable, and the
\* entry is only read through get_key_value.
after_wrap_key(store, key_id) == store

\* Mutation of wrap_entry: an unknown algorithm name falls back to OAEP.
wrap_entry_DefaultOaep(rsa_pub_key, wrapping_key, entry, rnd) ==
    LET wrapped_data ==
            IF wrapping_key.alg = RSA_PKCS15_ALGORITHM
            THEN encrypt(rsa_pub_key, rnd, "Pkcs1v15Encrypt", entry)
            ELSE encrypt(rsa_pub_key, rnd, "Oaep-Sha256", entry)
    IN  IF ~wrapped_data.ok THEN wrapped_data
        ELSE Ok(WrappedKeyData(EncodeCiphertext(wrapped_data.val)))

\* KeyStore::wrap_key, once the entry is found: the padding is chosen by the
\* algorithm name, the entry encrypted and the ciphertext encoded.
wrap_entry(rsa_pub_key, wrapping_key, entry, rnd) ==
    LET wrapped_data ==
            IF wrapping_key.alg = RSA_PKCS15_ALGORITHM
            THEN encrypt(rsa_pub_key, rnd, "Pkcs1v15Encrypt", entry)
            ELSE IF wrapping_key.alg = RSA_OAEP_ALGORITHM
            THEN encrypt(rsa_pub_key, rnd, "Oaep-Sha256", entry)
            ELSE Err("UnsupportedWrappingKeyAlgorithm")
    IN  IF ~wrapped_data.ok THEN wrapped_data
        ELSE Ok(WrappedKeyData(EncodeCiphertext(wrapped_data.val)))

\* Mutation of lookup_and_wrap: a missing entry is wrapped as empty data.
lookup_and_wrap_OrEmpty(store, key_id, rsa_pub_key, wrapping_key, rnd) ==
    wrap_entry(rsa_pub_key, wrapping_key,
               IF key_id \in DOMAIN store THEN store[key_id] ELSE << >>, rnd)

\* KeyStore::wrap_key, once the public key is built: the entry is looked up.
lookup_and_wrap(store, key_id, rsa_pub_key, wrapping_key, rnd) ==
    IF key_id \notin DOMAIN store THEN Err("KeyNotFound")
    ELSE wrap_entry(rsa_pub_key, wrapping_key, store[key_id], rnd)

\* KeyStore::wrap_key, once the key type is accepted: the modulus and the
\* exponent are decoded and the public key is built.
build_and_wrap(store, key_id, wrapping_key, rnd) ==
    LET k_mod == URL_SAFE_NO_PAD_decode(wrapping_key.n) IN
    IF ~k_mod.ok THEN Err("Base64Decode")
    ELSE
    LET k_exp == URL_SAFE_NO_PAD_decode(wrapping_key.e) IN
    IF ~k_exp.ok THEN Err("Base64Decode")
    ELSE
    LET rsa_pub_key == RsaPublicKey_new(FromBytesBE(k_mod.val),
                                        FromBytesBE(k_exp.val)) IN
    IF ~rsa_pub_key.ok THEN Err("Rsa")
    ELSE lookup_and_wrap(store, key_id, rsa_pub_key.val, wrapping_key, rnd)

\* Mutation of wrap_key: the key type is not looked at.
wrap_key_AnyKeyType(store, key_id, wrapping_key, rnd) ==
    build_and_wrap(store, key_id, wrapping_key, rnd)

\* KeyStore::wrap_key, with rnd the randomness thread_rng supplies.
wrap_key(store, key_id, wrapping_key, rnd) ==
    IF wrapping_key.kty # RSA_KEY_TYPE THEN Err("UnsupportedWrappingKeyType")
    ELSE build_and_wrap(store, key_id, wrapping_key, rnd)

(***************************************************************************)
(* policy.rs and verifier.rs: the appraisal of one evidence submission.    *)
(***************************************************************************)
CCA_MEDIA_TYPE == "application/eat-collection; profile=\"http://arm.com/CCA-SSD/1.0.0\""

\* MEDIATYPES_TO_POLICY: media type -> (policy, rule).
MEDIATYPES_TO_POLICY ==
    [m \in {CCA_MEDIA_TYPE} |-> << "arm-cca.rego", "data.arm_cca.allow" >>]

None == [some |-> FALSE]
Some(v) == [some |-> TRUE, val |-> v]

\* What the Veraison service and the libraries answer during one run of the
\* verifier: the outcome of every step it can reach.
Outcomes == {"ok", "err"}
Realms == {"absent", "affirming", "warning-no-rim", "warning-rim"}
RuleResults == {"true", "false", "undefined", "err"}

AllGood ==
    [discovery |-> "ok", endpoint |-> TRUE, session |-> "ok", submission |-> "ok",
     token |-> "ok", realm |-> "warning-rim", rego |-> "true"]

\* One environment per first point of failure, and per content of the result.
Envs ==
    { [AllGood EXCEPT !.discovery = "err"],
      [AllGood EXCEPT !.endpoint = FALSE],
      [AllGood EXCEPT !.session = "err"],
      [AllGood EXCEPT !.submission = "err"],
      [AllGood EXCEPT !.token = "err"] }
    \cup { [AllGood EXCEPT !.realm = x] : x \in Realms }
    \cup { [AllGood EXCEPT !.rego = x] : x \in RuleResults }

\* Mutation of emit_no_reference_values: the hook finds nothing to report.
emit_no_reference_values_Silent(realm) == Ok("unit")

\* CcaDiagnostics::emit_no_reference_values on the CCA_REALM submodule of the EAR.
emit_no_reference_values(realm) ==
    IF realm = "absent" THEN Err("EARCCAError")
    ELSE IF realm = "warning-no-rim" THEN Err("EARCCAError")
    ELSE Ok("unit")

\* policy::rego_eval: the rule's value, or the engine's error.
rego_eval(policy, policy_rule, reference_values, rego) ==
    IF rego = "err" THEN Err("Policy") ELSE Ok(rego)

\* One call the verifier made, to the Veraison service or to a library, and
\* how it came out; one run of the verifier: its result and the calls it made.
Call(name, outcome) == [call |-> name, outcome |-> outcome]
Run(res, made) == [result |-> res, calls |-> made]

\* The default policy arm-cca.rego on good claims: data.arm_cca.allow is
\* "true" when the reference values match the measurement and "false" when
\* they do not.
arm_cca_allow(rim_matches) == IF rim_matches THEN "true" ELSE "false"

\* Mutation of to_verdict: whatever is not "false" counts as verified.
to_verdict_NotFalse(value) == value # "false"

\* results.to_string() == "true"
to_verdict(value) == value = "true"

\* Mutation of appraise: the reference values are looked at before the policy
\* of the media type is.
appraise_ReferenceValuesFirst(env, media_type, reference_values, made) ==
    IF ~reference_values.some THEN
        LET diagnosed == emit_no_reference_values(env.realm) IN
        Run(IF ~diagnosed.ok THEN diagnosed ELSE Err("NoReferenceValues"),
            Append(made, Call("emit_no_reference_values",
                              IF diagnosed.ok THEN "ok" ELSE "err")))
    ELSE IF media_type \notin DOMAIN MEDIATYPES_TO_POLICY
    THEN Run(Err("PolicyNotFound"), made)
    ELSE
    LET results == rego_eval(MEDIATYPES_TO_POLICY[media_type][1],
                             MEDIATYPES_TO_POLICY[media_type][2],
                             reference_values.val, env.rego)
    IN  Run(IF ~results.ok THEN results ELSE Ok(to_verdict(results.val)),
            Append(made, Call("rego_eval", env.rego)))

\* verify_with_veraison_instance, once the EAR is parsed: the policy of the
\* media type is looked up, missing reference values are diagnosed, and the
\* rule is evaluated.
appraise(env, media_type, reference_values, made) ==
    IF media_type \notin DOMAIN MEDIATYPES_TO_POLICY
    THEN Run(Err("PolicyNotFound"), made)
    ELSE IF ~reference_values.some THEN
        LET diagnosed == emit_no_reference_values(env.realm) IN
        Run(IF ~diagnosed.ok THEN diagnosed ELSE Err("NoReferenceValues"),
            Append(made, Call("emit_no_reference_values",
                              IF diagnosed.ok THEN "ok" ELSE "err")))
    ELSE
    LET results == rego_eval(MEDIATYPES_TO_POLICY[media_type][1],
                             MEDIATYPES_TO_POLICY[media_type][2],
                             reference_values.val, env.rego)
    IN  Run(IF ~results.ok THEN results ELSE Ok(to_verdict(results.val)),
            Append(made, Call("rego_eval", env.rego)))

\* Mutation of inspect_token: a token that fails the check is appraised all
\* the same.
inspect_token_Unchecked(env, media_type, reference_values, made) ==
    appraise(env, media_type, reference_values,
             Append(made, Call("from_jwt_jwk", env.token)))

\* verify_with_veraison_instance, once the service has answered: Ear::from_jwt_jwk
\* checks the signature of the result token and parses its claims.
inspect_token(env, media_type, reference_values, made) ==
    IF env.token = "err"
    THEN Run(Err("Ear"), Append(made, Call("from_jwt_jwk", "err")))
    ELSE appraise(env, media_type, reference_values,
                  Append(made, Call("from_jwt_jwk", "ok")))

\* Mutation of challenge_response: a session that could not be opened is
\* requested a second time before the verifier gives up.
challenge_response_Retrying(env, media_type, reference_values, made) ==
    IF env.session = "err"
    THEN Run(Err("VeraisonApi"),
             made \o << Call("new_session", "err"), Call("new_session", "err") >>)
    ELSE IF env.submission = "err"
    THEN Run(Err("VeraisonApi"),
             made \o << Call("new_session", "ok"), Call("challenge_response", "err") >>)
    ELSE inspect_token(env, media_type, reference_values,
             made \o << Call("new_session", "ok"), Call("challenge_response", "ok") >>)

\* verify_with_veraison_instance, once the endpoint is known: a session is
\* opened with the nonce and the evidence is submitted to it.
challenge_response(env, media_type, reference_values, made) ==
    IF env.session = "err"
    THEN Run(Err("VeraisonApi"), Append(made, Call("new_session", "err")))
    ELSE IF env.submission = "err"
    THEN Run(Err("VeraisonApi"),
             made \o << Call("new_session", "ok"), Call("challenge_response", "err") >>)
    ELSE inspect_token(env, media_type, reference_values,
             made \o << Call("new_session", "ok"), Call("challenge_response", "ok") >>)

\* Mutation of get_api_endpoint: a descriptor without the capability falls
\* back to a default session path.
get_api_endpoint_OrDefault(env, media_type, reference_values, made) ==
    challenge_response(env, media_type, reference_values,
        Append(made, Call("get_api_endpoint", IF env.endpoint THEN "some" ELSE "none")))

\* verify_with_veraison_instance, once the descriptor is fetched: the
\* newChallengeResponseSession capability is resolved from it.
get_api_endpoint(env, media_type, reference_values, made) ==
    IF ~env.endpoint
    THEN Run(Err("NoChallengeResponseEndpoint"),
             Append(made, Call("get_api_endpoint", "none")))
    ELSE challenge_response(env, media_type, reference_values,
                            Append(made, Call("get_api_endpoint", "some")))

\* One run of verify_with_veraison_instance, from the fetch of the descriptor.
verifier_run(env, media_type, reference_values) ==
    IF env.discovery = "err"
    THEN Run(Err("VeraisonApi"), << Call("get_verification_api", "err") >>)
    ELSE get_api_endpoint(env, media_type, reference_values,
                          << Call("get_verification_api", "ok") >>)

\* Mutation of new_session_nonce: every session is opened with the nonce of
\* the test vector.
new_session_nonce_TestVector(run, challenge_value) ==
    IF \E k \in DOMAIN run.calls : run.calls[k].call = "new_session"
    THEN CCA_EXAMPLE_TOKEN_NONCE
    ELSE << >>

\* Nonce::Value(challenge.to_vec()), handed to new_session: the nonce a run
\* opened its session with, or nothing when the run did not get that far.
new_session_nonce(run, challenge_value) ==
    IF \E k \in DOMAIN run.calls : run.calls[k].call = "new_session"
    THEN challenge_value
    ELSE << >>

\* verifier::verify_with_veraison_instance
verify_with_veraison_instance(env, media_type, reference_values) ==
    verifier_run(env, media_type, reference_values).result

(***************************************************************************)
(* main.rs: the server state and the two request handlers.                 *)
(***************************************************************************)
VARIABLES
    challenge_table,   \* Challenger.challenge_table: challenge id -> Challenge
    keys,              \* KeyStore.keys: key id -> secret bytes
    challenger_lock,   \* ServerState.challenger: "free" or "held"
    keystore_lock,     \* ServerState.keystore: "free", "held" or "poisoned"
    mock_challenge,    \* Args.mock_challenge
    pc,                \* where the handler of each request is
    req,               \* what each request asks for
    challenge,         \* the running handler's local `challenge`
    calls,             \* the calls the verification task of each submission made
    session_nonce,     \* the nonce the task of each submission opened its session with
    result,            \* what the verification task of each submission returned
    data,              \* what wrap_key returned to each submission
    resp               \* the response the handler returned

vars == << challenge_table, keys, challenger_lock, keystore_lock, mock_challenge,
           pc, req, challenge, calls, session_nonce, result, data, resp >>

\* Args.reference_values: a file name, "reference-values.json" by default.
Args_reference_values == Some("reference-values.json")

\* ServerState.endpoint, from the default address and port.
Endpoint == "http://127.0.0.1:8088"

NoRequest == [op |-> "none"]
NoResult == Err("pending")
NoData == Err("pending")
NoResponse == [status |-> 0]

\* The accept list request_key advertises.
AcceptList == << "application/eat-collection; profile=http://arm.com/CCA-SSD/1.0.0" >>

AttestationChallenge(challenge_b64, accept) == [challenge |-> challenge_b64, accept |-> accept]
ErrorInformation(type, detail) == [type |-> type, detail |-> detail]

\* Mutation of Location: the URL ends in a slash.
Location_TrailingSlash(endpoint, challenge_id) ==
    [base |-> endpoint, path |-> << "keys", "v1", "evidence", ToDecimal(challenge_id), << >> >>]

\* format!("{}/keys/v1/evidence/{}", data.endpoint, challenge.challenge_id):
\* the base and the path segments of the URL.
Location(endpoint, challenge_id) ==
    [base |-> endpoint, path |-> << "keys", "v1", "evidence", ToDecimal(challenge_id) >>]

\* HttpResponse::Created, Forbidden and Ok.
Created(location, body) == [status |-> 201, location |-> location, body |-> body]
Forbidden(error_info) == [status |-> 403, body |-> error_info]
OkResponse(body) == [status |-> 200, body |-> body]

\* Mutation of ChallengeNotFoundResponse: 404 Not Found in place of 403.
ChallengeNotFoundResponse_404 ==
    [status |-> 404,
     body |-> ErrorInformation("AttestationFailure",
                 "The challenge identifier did not match any issued challenge.")]

ChallengeNotFoundResponse ==
    Forbidden(ErrorInformation("AttestationFailure",
        "The challenge identifier did not match any issued challenge."))
\* Mutation of NotInPolicyResponse: the error type names the failed check.
NotInPolicyResponse_Typed ==
    Forbidden(ErrorInformation("PolicyFailure",
        "The attestation result is not in policy."))

NotInPolicyResponse ==
    Forbidden(ErrorInformation("AttestationFailure",
        "The attestation result is not in policy."))
NoResultResponse ==
    Forbidden(ErrorInformation("AttestationFailure",
        "No attestation result was obtained."))

\* The evidence bodies clients send: base64url text, and text that is not.
EvidenceBodies == { << "0", "p", "8" >>, << "0", "p", "=" >> }

\* The Content-Type headers clients send: none, the media type of the policy
\* table, the advertised one, and a value with bytes outside visible ASCII.
NoHeader == [present |-> FALSE]
Header(text, visible) == [present |-> TRUE, text |-> text, visible |-> visible]
ContentTypes ==
    { NoHeader, Header(CCA_MEDIA_TYPE, TRUE), Header(AcceptList[1], TRUE),
      Header("application/\\x80", FALSE) }

\* HeaderValue::to_str
to_str(header) == IF header.visible THEN Ok(header.text) ELSE Err("ToStrError")

\* Requests are numbered in the order the server starts handling them.
InOrder(r) == \A q \in Requests : q < r => pc[q] # "idle"

Init ==
    /\ challenge_table = Challenger_new
    /\ keys = store_key(KeyStore_new, "skywalker", SkywalkerSecret)
    /\ challenger_lock = "free"
    /\ keystore_lock = "free"
    /\ mock_challenge \in BOOLEAN
    /\ pc = [r \in Requests |-> "idle"]
    /\ req = [r \in Requests |-> NoRequest]
    /\ challenge = [r \in Requests |-> NoChallenge]
    /\ calls = [r \in Requests |-> << >>]
    /\ session_nonce = [r \in Requests |-> << >>]
    /\ result = [r \in Requests |-> NoResult]
    /\ data = [r \in Requests |-> NoData]
    /\ resp = [r \in Requests |-> NoResponse]

\* Mutation of unwind: a panic in one handler aborts the process, and with it
\* every handler.
unwind_Abort(handlers, r) == [q \in Requests |-> "panicked"]

\* A panic in the handler of request r: the runtime catches it at the task of
\* that request, which ends without a response; the other handlers and the
\* server go on.
unwind(handlers, r) == [handlers EXCEPT ![r] = "panicked"]

\* request_key: under the challenger lock, create a challenge and answer 201.
\* When every nonzero id is live the retry loop of create_challenge never
\* exits, and the handler keeps the lock.
request_key(r, key_id, pubkey, nonce) ==
    /\ pc[r] = "idle"
    /\ InOrder(r)
    /\ challenger_lock = "free"
    /\ req' = [req EXCEPT ![r] = [op |-> "request_key", key_id |-> key_id, pubkey |-> pubkey]]
    /\ \/ \E challenge_id \in FreshIds(challenge_table) :
            LET created == create_challenge(challenge_table, key_id, pubkey,
                                            challenge_id, nonce)
            IN  /\ nonce \in Nonces(mock_challenge)
                /\ challenge_table' = created.table
                /\ resp' = [resp EXCEPT ![r] =
                      Created(Location(Endpoint, created.challenge.challenge_id),
                              AttestationChallenge(
                                  URL_SAFE_NO_PAD_encode(created.challenge.challenge_value),
                                  AcceptList))]
                /\ pc' = [pc EXCEPT ![r] = "done"]
                /\ UNCHANGED << challenger_lock, challenge >>
       \/ /\ FreshIds(challenge_table) = {}
          /\ challenger_lock' = "held"
          /\ pc' = [pc EXCEPT ![r] = "create_challenge"]
          /\ UNCHANGED << challenge_table, challenge, resp >>
    /\ UNCHANGED << keys, keystore_lock, mock_challenge, calls, session_nonce, result, data >>

\* Mutation of MutexGuard_drop: the guard outlives the block and the lock
\* stays with the handler.
MutexGuard_drop_Leaked(lock) == lock

\* The guard of the challenger lock goes out of scope, at the early return
\* or at the end of the block that looks the challenge up: the lock is free.
MutexGuard_drop(lock) == "free"

\* submit_evidence up to the start of the verifier: under the challenger lock,
\* look the challenge up and delete it; then decode the evidence and spawn the
\* blocking verification task.
submit_evidence(r, challenge_id, evidence_base64) ==
    /\ pc[r] = "idle"
    /\ InOrder(r)
    /\ challenger_lock = "free"
    /\ req' = [req EXCEPT ![r] = [op |-> "submit_evidence", challenge_id |-> challenge_id]]
    /\ LET found == get_challenge(challenge_table, challenge_id) IN
       IF ~found.ok
       THEN /\ resp' = [resp EXCEPT ![r] = ChallengeNotFoundResponse]
            /\ pc' = [pc EXCEPT ![r] = "done"]
            /\ UNCHANGED << challenge_table, challenge >>
       ELSE /\ challenge_table' = delete_challenge(challenge_table, challenge_id).table
            /\ IF URL_SAFE_NO_PAD_decode(evidence_base64).ok
               THEN /\ pc' = [pc EXCEPT ![r] = "verifying"]
                    /\ challenge' = [challenge EXCEPT ![r] = found.val]
               ELSE /\ pc' = unwind(pc, r)
                    /\ UNCHANGED challenge
            /\ UNCHANGED resp
    /\ challenger_lock' = MutexGuard_drop("held")
    /\ UNCHANGED << keys, keystore_lock, mock_challenge, calls, session_nonce, result,
                    data >>

\* The handler of request r ends, by a return or by a panic: its locals are dropped.
Drop(locals, r, none) == [locals EXCEPT ![r] = none]

\* Mutation of Verified: any result that is not an error counts.
Verified_AnyOk(res) == res.ok

\* Whether the match on the verifier's result takes the branch that wraps the key.
Verified(res) == res.ok /\ res.val

\* The blocking task ends and submit_evidence matches on its result.  On an
\* error or a negative verdict it answers 403.  On a positive verdict it takes
\* the keystore lock, waiting while another handler holds it and panicking on
\* a poisoned one.
verification_done(r, content_type, env) ==
    /\ pc[r] = "verifying"
    /\ LET header == IF content_type.present THEN content_type
                     ELSE Header("text/plain", TRUE)
           content_type_str == to_str(header)
           res == verify_with_veraison_instance(
                      env, content_type_str.val, Args_reference_values)
       IN  IF ~content_type_str.ok
           THEN /\ pc' = unwind(pc, r)
                /\ challenge' = Drop(challenge, r, NoChallenge)
                /\ UNCHANGED << calls, session_nonce, result, resp, keystore_lock >>
           ELSE /\ result' = [result EXCEPT ![r] = res]
                /\ calls' = [calls EXCEPT ![r] =
                      verifier_run(env, content_type_str.val, Args_reference_values).calls]
                /\ session_nonce' = [session_nonce EXCEPT ![r] =
                      new_session_nonce(
                          verifier_run(env, content_type_str.val, Args_reference_values),
                          challenge[r].challenge_value)]
                /\ IF ~Verified(res)
                   THEN /\ pc' = [pc EXCEPT ![r] = "done"]
                        /\ resp' = [resp EXCEPT ![r] =
                              IF res.ok THEN NotInPolicyResponse
                              ELSE NoResultResponse]
                        /\ challenge' = Drop(challenge, r, NoChallenge)
                        /\ UNCHANGED keystore_lock
                   ELSE IF keystore_lock = "poisoned"
                   THEN /\ pc' = unwind(pc, r)
                        /\ challenge' = Drop(challenge, r, NoChallenge)
                        /\ UNCHANGED << resp, keystore_lock >>
                   ELSE /\ keystore_lock = "free"
                        /\ keystore_lock' = "held"
                        /\ pc' = [pc EXCEPT ![r] = "wrap_key"]
                        /\ UNCHANGED << resp, challenge >>
    /\ UNCHANGED << challenge_table, keys, challenger_lock, mock_challenge, req, data >>

\* submit_evidence with the keystore lock held: it calls wrap_key and unwraps
\* its result; it answers 200 with the wrapped key and lets the lock go, or
\* panics with the lock held, which poisons it.
wrap_and_respond(r, rnd) ==
    /\ pc[r] = "wrap_key"
    /\ LET wrapped == wrap_key(keys, challenge[r].key_id, challenge[r].wrapping_key, rnd)
       IN  /\ data' = [data EXCEPT ![r] = wrapped]
           /\ keys' = after_wrap_key(keys, challenge[r].key_id)
           /\ IF wrapped.ok
              THEN /\ pc' = [pc EXCEPT ![r] = "done"]
                   /\ resp' = [resp EXCEPT ![r] = OkResponse(wrapped.val)]
                   /\ keystore_lock' = "free"
              ELSE /\ pc' = unwind(pc, r)
                   /\ keystore_lock' = "poisoned"
                   /\ UNCHANGED resp
    /\ challenge' = Drop(challenge, r, NoChallenge)
    /\ UNCHANGED << challenge_table, challenger_lock, mock_challenge, req, calls, session_nonce, result >>

\* The inputs of the requests of one behaviour.
KeyRequests == { << "skywalker", RsaOaepKey >>, << "vader", RsaOaepKey >> }
RequestNonces == {CCA_EXAMPLE_TOKEN_NONCE} \cup RandomNonces
RequestContentTypes ==
    { NoHeader, Header(CCA_MEDIA_TYPE, TRUE), Header("application/\\x80", FALSE) }
RequestEnvs ==
    { AllGood, [AllGood EXCEPT !.rego = "false"], [AllGood EXCEPT !.token = "err"],
      [AllGood EXCEPT !.session = "err"] }
RequestRandomness == {1, 2}

Next ==
    \E r \in Requests :
        \/ \E kr \in KeyRequests, nonce \in RequestNonces :
               request_key(r, kr[1], kr[2], nonce)
        \/ \E challenge_id \in IdSpace, evidence_base64 \in EvidenceBodies :
               submit_evidence(r, challenge_id, evidence_base64)
        \/ \E content_type \in RequestContentTypes, env \in RequestEnvs :
               verification_done(r, content_type, env)
        \/ \E rnd \in RequestRandomness : wrap_and_respond(r, rnd)

Spec == Init /\ [][Next]_vars

(***************************************************************************)
(* What the record of requests and responses shows.                        *)
(***************************************************************************)
IsKeyRequest(r) == req[r].op = "request_key"
IsSubmission(r) == req[r].op = "submit_evidence"

\* The trailing path segment of a Location header.
TrailingSegment(location) == location.path[Len(location.path)]

\* Request r was answered 201 with a Location whose trailing segment reads i.
IssuedTo(r, i) ==
    /\ IsKeyRequest(r)
    /\ resp[r].status = 201
    /\ ParseU32(TrailingSegment(resp[r].location)) = Ok(i)

\* Submission r found its challenge live: it was not turned away at the lookup.
Proceeded(r) ==
    /\ IsSubmission(r)
    /\ ~(resp[r].status = 403
         /\ resp[r].body.detail = "The challenge identifier did not match any issued challenge.")

TurnedAway(r) == IsSubmission(r) /\ ~Proceeded(r)

Issued(i) == Cardinality({r \in Requests : IssuedTo(r, i)})
Redeemed(i) == Cardinality({r \in Requests : Proceeded(r) /\ req[r].challenge_id = i})
Live(i) == IF i \in DOMAIN challenge_table THEN 1 ELSE 0

\* C1: redemption is exactly-once under concurrency.  For every challenge id,
\* each challenge issued under it is either still live or was found live by
\* exactly one submission; hence of the submissions naming one issued
\* challenge at most one proceeds to verification, and every other one is
\* turned away with the challenge-not-found answer.
C1_ExactlyOnce ==
    \A i \in IdSpace : Redeemed(i) + Live(i) = Issued(i)

\* Two submissions named the same id, issued once: one proceeded, the other
\* was turned away.
C1_Witness ==
    \E r1, r2 \in Requests :
        /\ Proceeded(r1) /\ TurnedAway(r2)
        /\ req[r1].challenge_id = req[r2].challenge_id
        /\ Issued(req[r1].challenge_id) = 1

\* C2: submit_evidence answers 200 with wrapped key data, and calls wrap_key
\* at all, only if the verification of that same submission returned Ok(true).
C2_ReleaseOnlyOnTrue ==
    \A r \in Requests :
        (resp[r].status = 200 \/ data[r] # NoData)
            => /\ IsSubmission(r)
               /\ result[r].ok
               /\ result[r].val = TRUE

\* A submission was answered 200 with the wrapped key after a verdict of true.
C2_Witness ==
    \E r \in Requests :
        /\ IsSubmission(r) /\ resp[r].status = 200
        /\ result[r] = Ok(TRUE) /\ data[r].ok /\ resp[r].body = data[r].val

\* C3: the challenge is removed from the table by the step that accepts the
\* submission, which comes before the verifier runs, and no way verification
\* ends (verdict true or false, error, panic) changes the table again.
C3_RemovedBeforeVerification ==
    [][\A r \in Requests :
          /\ (pc[r] = "idle" /\ IsSubmission(r)' /\ Proceeded(r)')
                => /\ pc'[r] \in {"verifying", "panicked"}
                   /\ req'[r].challenge_id \in DOMAIN challenge_table
                   /\ req'[r].challenge_id \notin DOMAIN challenge_table'
          /\ (pc[r] = "verifying" /\ pc'[r] # "verifying")
                => challenge_table' = challenge_table
      ]_vars

\* A submission is being verified, or its verification has ended in each of
\* the ways it can, and its challenge id is not in the table.
C3_Witness ==
    \E r \in Requests :
        /\ IsSubmission(r) /\ Proceeded(r)
        /\ pc[r] \in {"verifying", "done", "panicked"}
        /\ req[r].challenge_id \notin DOMAIN challenge_table
        /\ \E q \in Requests : IsSubmission(q) /\ pc[q] = "verifying"

\* Request r is a request_key whose handler returns in this step.
Creates(r) == pc[r] = "idle" /\ IsKeyRequest(r)' /\ pc'[r] = "done"

\* The id the Location of a 201 response names.
LocationId(response) == ParseU32(TrailingSegment(response.location))

\* Request r is a submission that finds its challenge live in this step.
Accepts(r) == pc[r] = "idle" /\ IsSubmission(r)' /\ Proceeded(r)'

\* C4: in every reachable state every entry of the challenge table has a
\* nonzero id and is stored under the key equal to its own challenge_id, and no
\* two entries share an id; the id create_challenge returns is nonzero, was not
\* live immediately before the call, and is live after it.
C4_TableInvariant ==
    /\ [](\A k \in DOMAIN challenge_table :
             /\ k # 0
             /\ challenge_table[k].challenge_id = k
             /\ \A j \in DOMAIN challenge_table :
                    challenge_table[j].challenge_id = challenge_table[k].challenge_id
                        => j = k)
    /\ [][\A r \in Requests :
             Creates(r) =>
                 /\ resp'[r].status = 201
                 /\ LocationId(resp'[r]).ok
                 /\ LocationId(resp'[r]).val # 0
                 /\ LocationId(resp'[r]).val \notin DOMAIN challenge_table
                 /\ LocationId(resp'[r]).val \in DOMAIN challenge_table'
         ]_vars

\* A challenge was created after another had been deleted, and is live.
C4_Witness ==
    \E q, r \in Requests :
        /\ q < r /\ Proceeded(q)
        /\ \E i \in DOMAIN challenge_table : IssuedTo(r, i)

\* C5 as stated: once delete_challenge(id) has succeeded, get_challenge(id) and
\* delete_challenge(id) fail in every later state, whatever happened in between.
C5_Original ==
    \A r \in Requests :
        Proceeded(r) =>
            /\ ~get_challenge(challenge_table, req[r].challenge_id).ok
            /\ ~delete_challenge(challenge_table, req[r].challenge_id).result.ok

\* C5, amended: after delete_challenge(id) succeeds, get_challenge(id) and
\* delete_challenge(id) fail with ChallengeNotFound until a later
\* create_challenge call returns the same id; create_challenge avoids only the
\* ids live at the moment of the call, and no other operation makes the id
\* found again.
C5_NotFoundUntilReissued ==
    [][\A i \in IdSpace :
          /\ (\E r \in Requests : Accepts(r) /\ req'[r].challenge_id = i)
                => /\ get_challenge(challenge_table', i) = Err("ChallengeNotFound")
                   /\ delete_challenge(challenge_table', i).result = Err("ChallengeNotFound")
                   /\ delete_challenge(challenge_table', i).table = challenge_table'
          /\ (~get_challenge(challenge_table, i).ok /\ get_challenge(challenge_table', i).ok)
                => \E r \in Requests : Creates(r) /\ IssuedTo(r, i)'
      ]_vars

\* An id whose challenge was deleted has been returned again by a later
\* create_challenge, and is found.
C5_Witness ==
    \E q, r \in Requests :
        /\ q < r /\ Proceeded(q)
        /\ IssuedTo(r, req[q].challenge_id)
        /\ get_challenge(challenge_table, req[q].challenge_id).ok

\* C6: a submission naming an id with no live challenge is answered 403 with
\* type AttestationFailure and the detail that the identifier matched no issued
\* challenge; the handler returns at once, so neither the verifier nor the key
\* store is used then or later, and the challenge table is left as it was.
C6_UnknownChallenge ==
    /\ [][\A r \in Requests :
             (pc[r] = "idle" /\ IsSubmission(r)'
                 /\ req'[r].challenge_id \notin DOMAIN challenge_table)
             => /\ resp'[r] =
                      [status |-> 403,
                       body |-> [type |-> "AttestationFailure",
                                 detail |-> "The challenge identifier did not match any issued challenge."]]
                /\ pc'[r] = "done"
                /\ challenge_table' = challenge_table
                /\ keys' = keys /\ keystore_lock' = keystore_lock
         ]_vars
    /\ [](\A r \in Requests :
             TurnedAway(r) => pc[r] = "done" /\ result[r] = NoResult /\ data[r] = NoData)

\* A submission naming an id that was never issued was turned away while
\* another challenge was live, and that challenge is still live.
C6_Witness ==
    \E r \in Requests :
        /\ TurnedAway(r) /\ Issued(req[r].challenge_id) = 0
        /\ DOMAIN challenge_table # {}
        /\ pc[r] = "done" /\ result[r] = NoResult

\* The handler of submission r has ended, by a return or by a panic.
Ended(r) == IsSubmission(r) /\ pc[r] \in {"done", "panicked"}

\* C7 as stated: every submission whose handling ended without the wrapped key
\* was answered 403 with type AttestationFailure; no failure ended the handler
\* without that response.
C7_EveryFailure403 ==
    \A r \in Requests :
        (Ended(r) /\ resp[r].status # 200)
            => /\ resp[r].status = 403
               /\ resp[r].body.type = "AttestationFailure"

\* The three answers to a failed redemption.
NotFound403 ==
    [status |-> 403,
     body |-> [type |-> "AttestationFailure",
               detail |-> "The challenge identifier did not match any issued challenge."]]
NoResult403 ==
    [status |-> 403,
     body |-> [type |-> "AttestationFailure",
               detail |-> "No attestation result was obtained."]]
NotInPolicy403 ==
    [status |-> 403,
     body |-> [type |-> "AttestationFailure",
               detail |-> "The attestation result is not in policy."]]

\* C8 as stated: the responses to two failed redemptions cannot be told apart.
C8_Original ==
    \A r, q \in Requests :
        (IsSubmission(r) /\ IsSubmission(q) /\ resp[r].status = 403 /\ resp[q].status = 403)
            => resp[r] = resp[q]

\* C8, amended: the response to a failed redemption has status 403 and type
\* AttestationFailure whatever check failed, and its detail text depends only
\* on the stage that failed: the challenge lookup, obtaining an attestation
\* result (the same text for every verifier error), or the verdict being
\* false.  The client can tell these three stages apart and nothing more.
C8_ThreeCoarseAnswers ==
    \A r \in Requests :
        (IsSubmission(r) /\ resp[r].status = 403)
            => /\ resp[r].body.type = "AttestationFailure"
               /\ resp[r] = IF result[r] = NoResult THEN NotFound403
                            ELSE IF result[r].ok THEN NotInPolicy403
                            ELSE NoResult403

\* Two redemptions failed at different stages: their responses agree on the
\* status and the type and differ in the detail.
C8_Witness ==
    \E r, q \in Requests :
        /\ IsSubmission(r) /\ resp[r].status = 403 /\ result[r] = NoResult
        /\ IsSubmission(q) /\ resp[q].status = 403 /\ result[q] # NoResult
        /\ resp[r].body.type = resp[q].body.type
        /\ resp[r].body.detail # resp[q].body.detail

\* C9: request_key never consults the key store: whatever the key id, a
\* request_key that returns answers 201 and leaves a live challenge bound to
\* that key id and to the supplied wrapping key, and it can do so for a key id
\* the store does not hold; that the key is absent shows only as wrap_key's
\* KeyNotFound, after a verdict of true.
C9_KeyIdNotChecked ==
    /\ [][\A r \in Requests :
             Creates(r) =>
                 /\ resp'[r].status = 201
                 /\ LocationId(resp'[r]).ok
                 /\ LocationId(resp'[r]).val \in DOMAIN challenge_table'
                 /\ challenge_table'[LocationId(resp'[r]).val].key_id = req'[r].key_id
                 /\ challenge_table'[LocationId(resp'[r]).val].wrapping_key = req'[r].pubkey
                 /\ keys' = keys /\ keystore_lock' = keystore_lock /\ data' = data
         ]_vars
    /\ [](\A r \in Requests :
             /\ (IsKeyRequest(r) /\ resp[r].status # 0) => resp[r].status = 201
             /\ data[r] = Err("KeyNotFound") => result[r] = Ok(TRUE))

\* A challenge was issued for a key id the store does not hold, and a
\* submission verified as true found the key missing in wrap_key.
C9_Witness ==
    \E r, q \in Requests :
        /\ IsKeyRequest(r) /\ req[r].key_id \notin DOMAIN keys /\ resp[r].status = 201
        /\ IsSubmission(q) /\ IssuedTo(r, req[q].challenge_id)
        /\ result[q] = Ok(TRUE) /\ data[q] = Err("KeyNotFound")

\* C10: every request_key that returns answers 201; the trailing path segment
\* of its Location is the decimal challenge_id of the challenge it has just
\* inserted in the table, the nonce of that challenge is the base64url
\* decoding of the challenge in the response body, and the segment reads as
\* the id of no other challenge.
C10_LocationNamesChallenge ==
    [][\A r \in Requests :
          Creates(r) =>
              /\ resp'[r].status = 201
              /\ LocationId(resp'[r]).ok
              /\ LET id == LocationId(resp'[r]).val IN
                 /\ id \notin DOMAIN challenge_table
                 /\ id \in DOMAIN challenge_table'
                 /\ TrailingSegment(resp'[r].location)
                        = ToDecimal(challenge_table'[id].challenge_id)
                 /\ URL_SAFE_NO_PAD_decode(resp'[r].body.challenge)
                        = Ok(challenge_table'[id].challenge_value)
                 /\ get_challenge(challenge_table', id) = Ok(challenge_table'[id])
                 /\ \A j \in IdSpace :
                        ParseU32(ToDecimal(j)) = Ok(id) => j = id
                 /\ \A j \in DOMAIN challenge_table :
                        challenge_table'[j] = challenge_table[j]
      ]_vars

\* Two challenges are live, each issued by a 201 whose body carries its nonce.
C10_Witness ==
    \E r, q \in Requests :
        /\ r # q
        /\ \E i, j \in DOMAIN challenge_table :
              /\ i # j /\ IssuedTo(r, i) /\ IssuedTo(q, j)
              /\ URL_SAFE_NO_PAD_decode(resp[r].body.challenge)
                     = Ok(challenge_table[i].challenge_value)

\* The store main builds before the server starts.
StartupStore == store_key(KeyStore_new, "skywalker", SkywalkerSecret)

\* C17: the key store is read-only after startup: no request_key and no
\* submit_evidence, successful or failing, adds, removes or changes an entry,
\* and wrap_key leaves the store as it was when it succeeds and when it fails;
\* the store stays the one main built.
C17_StoreReadOnly ==
    /\ [](keys = StartupStore)
    /\ [][keys' = keys]_vars

\* A key was requested and released wrapped, a second redemption of the same
\* challenge was turned away, and the store is the one main built.
C17_Witness ==
    /\ keys = StartupStore
    /\ \E r \in Requests :
           /\ IsSubmission(r) /\ pc[r] = "done"
           /\ data[r].ok /\ resp[r].status = 200
    /\ \E r \in Requests :
           /\ IsSubmission(r) /\ pc[r] = "done"
           /\ resp[r] = ChallengeNotFoundResponse


\* The secrets the store holds.
Plaintexts == {keys[k] : k \in DOMAIN keys}

\* The wrapped key data is base64url text of an RSA ciphertext.
Sealed(wrapped_key) ==
    /\ wrapped_key.data.encoding = "base64url-nopad"
    /\ wrapped_key.data.bytes.cipher = "RSA"

\* The wrapped key data encrypts the entry the key request q named, under the
\* public key that request carried.
SealedFor(wrapped_key, q) ==
    /\ req[q].key_id \in DOMAIN keys
    /\ wrapped_key.data.bytes.msg = keys[req[q].key_id]
    /\ wrapped_key.data.bytes.n
           = FromBytesBE(URL_SAFE_NO_PAD_decode(req[q].pubkey.n).val)
    /\ wrapped_key.data.bytes.e
           = FromBytesBE(URL_SAFE_NO_PAD_decode(req[q].pubkey.e).val)

\* C18: no response of either handler and no result of wrap_key carries a
\* stored secret in plaintext.  A 201 carries a challenge value that is no
\* stored secret; a 403 is one of three fixed bodies; a 200 carries the
\* result of wrap_key and nothing else; and a result of wrap_key is either
\* an error kind or the base64url text of an RSA ciphertext of the entry,
\* made under the public key of the key request that was redeemed.
C18_NoPlaintext ==
    \A r \in Requests :
        /\ resp[r].status \in {0, 200, 201, 403}
        /\ resp[r].status = 201
               => /\ URL_SAFE_NO_PAD_decode(resp[r].body.challenge).ok
                  /\ URL_SAFE_NO_PAD_decode(resp[r].body.challenge).val \notin Plaintexts
        /\ resp[r].status = 403
               => resp[r] \in {ChallengeNotFoundResponse, NotInPolicyResponse,
                               NoResultResponse}
        /\ resp[r].status = 200
               => data[r].ok /\ resp[r] = OkResponse(data[r].val)
        /\ data[r] # NoData
               => IF data[r].ok
                  THEN /\ Sealed(data[r].val)
                       /\ \E q \in Requests :
                              /\ IssuedTo(q, req[r].challenge_id)
                              /\ SealedFor(data[r].val, q)
                  ELSE data[r].err \in {"UnsupportedWrappingKeyType", "Base64Decode",
                                        "Rsa", "KeyNotFound",
                                        "UnsupportedWrappingKeyAlgorithm"}

\* A submission was answered 200 with base64url text of an RSA ciphertext of
\* the secret stored under "skywalker".
C18_Witness ==
    \E r \in Requests :
        /\ resp[r].status = 200
        /\ Sealed(resp[r].body)
        /\ resp[r].body.data.bytes.msg = SkywalkerSecret
        /\ SkywalkerSecret \in Plaintexts


\* The handler of request r holds the challenger lock, which a request_key
\* does while create_challenge runs; it holds the keystore lock, which a
\* submit_evidence does from its positive verdict to the end of wrap_key.
HoldsChallengerLock(r) == pc[r] = "create_challenge" /\ challenger_lock = "held"
HoldsKeystoreLock(r) == pc[r] = "wrap_key" /\ keystore_lock = "held"

\* The verification task of request r is talking to the verification service.
InNetworkCall(r) == pc[r] = "verifying"

\* The handler of request r is in wrap_key with a wrapping key that gets as
\* far as RsaPublicKey::new: an RSA key is built and, for a registered key id
\* and a supported algorithm, the entry is encrypted.
InCryptoOperation(r) ==
    /\ pc[r] = "wrap_key"
    /\ challenge[r].wrapping_key.kty = RSA_KEY_TYPE
    /\ URL_SAFE_NO_PAD_decode(challenge[r].wrapping_key.n).ok
    /\ URL_SAFE_NO_PAD_decode(challenge[r].wrapping_key.e).ok

\* C24: neither the challenger lock nor the keystore lock is held by a
\* handler while its network call to the verification service or its RSA key
\* construction and encryption is in progress.
C24_NoLockAcrossSlowWork ==
    \A r \in Requests :
        (InNetworkCall(r) \/ InCryptoOperation(r))
            => ~HoldsChallengerLock(r) /\ ~HoldsKeystoreLock(r)


\* The place of each call in one run of the verifier, in the order of the
\* source: discovery, resolution of the endpoint, session creation, evidence
\* submission, inspection of the result token, then the diagnostics or the
\* evaluation of the policy rule.
StepOrder ==
    [get_verification_api |-> 1, get_api_endpoint |-> 2, new_session |-> 3,
     challenge_response |-> 4, from_jwt_jwk |-> 5, emit_no_reference_values |-> 6,
     rego_eval |-> 6]

\* How many times the handler of request r invoked the verifier: every
\* invocation starts by fetching the descriptor of the verification service.
Invocations(r) ==
    Cardinality({k \in DOMAIN calls[r] : calls[r][k].call = "get_verification_api"})

\* The calls of a run follow the order of the protocol, none of them twice.
InProtocolOrder(made) ==
    \A j, k \in DOMAIN made :
        j < k => StepOrder[made[j].call] < StepOrder[made[k].call]

\* A call that failed is the last call of its run, and the run is an error.
Failed(made_call) == made_call.outcome \in {"err", "none"}
FailureEnds(r) ==
    \A k \in DOMAIN calls[r] :
        Failed(calls[r][k]) => k = Len(calls[r]) /\ ~result[r].ok

\* The handler of submission r got a result from the verifier: it answered
\* 200 or one of the two 403s that follow the verification, or it is in
\* wrap_key.
PastVerification(r) ==
    /\ Proceeded(r)
    /\ \/ pc[r] = "wrap_key"
       \/ resp[r].status \in {200, 403}

\* The handler of submission r found its challenge live and has ended.
ProceededAndEnded(r) == Proceeded(r) /\ pc[r] \in {"done", "panicked"}

Issuers(r) == {q \in Requests : q < r /\ IssuedTo(q, req[r].challenge_id)}
Issuer(r) == CHOOSE q \in Issuers(r) : \A p \in Issuers(r) : p <= q

\* The nonce a 201 response carries.
IssuedNonce(q) == URL_SAFE_NO_PAD_decode(resp[q].body.challenge).val

C29_CreateChallengeReturns ==
    /\ challenger_lock = "free"
    /\ \A r \in Requests :
           IsKeyRequest(r) => pc[r] = "done" /\ resp[r].status = 201

\* A request_key is inside create_challenge and keeps the challenger lock.
CreateChallengeRunning == \E q \in Requests : HoldsChallengerLock(q)

\* C32: a pending verification does not block other requests on the
\* challenge table.  While the verification of a submission is in progress
\* the challenger lock is not held on its behalf: it is free unless a
\* request_key is inside create_challenge, and the next request, a
\* request_key or a submit_evidence for any challenge id, can take the lock
\* and do its table operation.  That step leaves the pending submission and
\* the challenge it holds as they are.
C32_VerificationHoldsNoLock ==
    /\ [](\A r \in Requests :
            pc[r] = "verifying"
                => /\ challenger_lock = "held" => CreateChallengeRunning
                   /\ ~CreateChallengeRunning
                          => \A q \in Requests :
                                 (pc[q] = "idle" /\ InOrder(q))
                                     => /\ ENABLED (\E kr \in KeyRequests,
                                                       nonce \in RequestNonces :
                                                        request_key(q, kr[1], kr[2], nonce))
                                        /\ \A challenge_id \in IdSpace :
                                               ENABLED (\E evidence_base64 \in EvidenceBodies :
                                                   submit_evidence(q, challenge_id,
                                                                   evidence_base64)))
    /\ [][\A r, q \in Requests :
            (r # q /\ pc[r] = "verifying" /\ pc[q] = "idle" /\ pc'[q] # "idle")
                => /\ pc'[r] = "verifying"
                   /\ challenge'[r] = challenge[r]
                   /\ pc'[q] # "create_challenge" => challenger_lock' = "free"]_vars

\* While the verification of one submission was in progress, a later key
\* request took the lock, stored its challenge and was answered 201, and the
\* lock is free again.
C32_Witness ==
    \E r, q \in Requests :
        /\ r < q
        /\ IsSubmission(r) /\ pc[r] = "verifying"
        /\ IsKeyRequest(q) /\ pc[q] = "done" /\ resp[q].status = 201
        /\ LocationId(resp[q]).val \in DOMAIN challenge_table
        /\ challenger_lock = "free"

(***************************************************************************)
(* The Challenger on its own: one caller drives its three methods, one     *)
(* call after the other.  Slot 1 of req and result holds the last call and *)
(* what it returned, slot 2 the call before it; challenge[1] is the        *)
(* Challenge the last create_challenge returned.                           *)
(***************************************************************************)
Shift(history, latest) == [history EXCEPT ![1] = latest, ![2] = history[1]]

\* challenger.create_challenge(key_id, wrapping_key, mock_challenge); when
\* every nonzero id is live the call never returns.
call_create_challenge(key_id, wrapping_key) ==
    /\ pc[1] = "idle"
    /\ \/ \E challenge_id \in FreshIds(challenge_table), nonce \in Nonces(mock_challenge) :
            LET created == create_challenge(challenge_table, key_id, wrapping_key,
                                            challenge_id, nonce)
            IN  /\ challenge_table' = created.table
                /\ challenge' = [challenge EXCEPT ![1] = created.challenge]
                /\ req' = Shift(req, [op |-> "create_challenge", key_id |-> key_id,
                                      wrapping_key |-> wrapping_key])
                /\ result' = Shift(result, Ok(created.challenge.challenge_id))
                /\ UNCHANGED pc
       \/ /\ FreshIds(challenge_table) = {}
          /\ pc' = [pc EXCEPT ![1] = "create_challenge"]
          /\ UNCHANGED << challenge_table, challenge, req, result >>
    /\ UNCHANGED << keys, challenger_lock, keystore_lock, mock_challenge, calls, session_nonce, data,
                    resp >>

\* Mutation of call_get_challenge: the lookup takes the entry out of the table.
call_get_challenge_Take(challenge_id) ==
    /\ pc[1] = "idle"
    /\ req' = Shift(req, [op |-> "get_challenge", challenge_id |-> challenge_id])
    /\ result' = Shift(result, get_challenge(challenge_table, challenge_id))
    /\ challenge_table' = Remove(challenge_table, challenge_id)
    /\ UNCHANGED << keys, challenger_lock, keystore_lock, mock_challenge, pc,
                    challenge, calls, session_nonce, data, resp >>

\* challenger.get_challenge(challenge_id)
call_get_challenge(challenge_id) ==
    /\ pc[1] = "idle"
    /\ req' = Shift(req, [op |-> "get_challenge", challenge_id |-> challenge_id])
    /\ result' = Shift(result, get_challenge(challenge_table, challenge_id))
    /\ UNCHANGED << challenge_table, keys, challenger_lock, keystore_lock,
                    mock_challenge, pc, challenge, calls, session_nonce, data, resp >>

\* challenger.delete_challenge(challenge_id)
call_delete_challenge(challenge_id) ==
    /\ pc[1] = "idle"
    /\ req' = Shift(req, [op |-> "delete_challenge", challenge_id |-> challenge_id])
    /\ result' = Shift(result, delete_challenge(challenge_table, challenge_id).result)
    /\ challenge_table' = delete_challenge(challenge_table, challenge_id).table
    /\ UNCHANGED << keys, challenger_lock, keystore_lock, mock_challenge, pc,
                    challenge, calls, session_nonce, data, resp >>

ChallengerNext ==
    \/ \E kr \in KeyRequests \cup { << "skywalker", EcKey >> } :
           call_create_challenge(kr[1], kr[2])
    \/ \E challenge_id \in IdSpace : call_get_challenge(challenge_id)
    \/ \E challenge_id \in IdSpace : call_delete_challenge(challenge_id)

ChallengerSpec == Init /\ [][ChallengerNext]_vars

\* C11: immediately after create_challenge(key_id, wk, false) has returned a
\* challenge, get_challenge of its id succeeds with a Challenge equal to the
\* returned one, whose challenge_id is the id, whose key_id and wrapping_key
\* are the arguments and whose nonce has exactly 64 bytes.
C11_GetAfterCreate ==
    (req[1].op = "create_challenge" /\ ~mock_challenge /\ pc[1] = "idle")
        => /\ get_challenge(challenge_table, challenge[1].challenge_id) = Ok(challenge[1])
           /\ result[1] = Ok(challenge[1].challenge_id)
           /\ challenge[1].key_id = req[1].key_id
           /\ challenge[1].wrapping_key = req[1].wrapping_key
           /\ Len(challenge[1].challenge_value) = 64

\* A create_challenge without the mock nonce has just returned, next to
\* another live challenge.
C11_Witness ==
    /\ req[1].op = "create_challenge" /\ ~mock_challenge
    /\ challenge[1].challenge_id \in DOMAIN challenge_table
    /\ Cardinality(DOMAIN challenge_table) = 2
    /\ challenge[1].challenge_value # CCA_EXAMPLE_TOKEN_NONCE

\* C12: get_challenge leaves the challenge table as it is, whether it finds
\* the challenge or fails with ChallengeNotFound, and a call that repeats the
\* call just before it returns the same result.
C12_GetIsPure ==
    [][req'[1].op = "get_challenge" =>
          /\ challenge_table' = challenge_table
          /\ \/ result'[1] = Err("ChallengeNotFound")
             \/ (result'[1].ok /\ result'[1].val = challenge_table[req'[1].challenge_id])
          /\ (req[1] = req'[1] => result'[1] = result[1])
      ]_vars

\* Two consecutive get_challenge calls of a live id returned the same
\* challenge, and the table still holds it.
C12_Witness ==
    /\ req[1].op = "get_challenge" /\ req[2] = req[1]
    /\ result[1] = result[2]
    /\ result[1].ok
    /\ get_challenge(challenge_table, req[1].challenge_id) = result[1]

\* A step stored a challenge: the table changed and no id left it.
Stores == challenge_table' # challenge_table
              /\ DOMAIN challenge_table \subseteq DOMAIN challenge_table'

\* C27: with the mock flag set every challenge carries the fixed 64-byte
\* test-vector nonce, so that distinct live challenges share their nonce;
\* without it every challenge carries 64 bytes drawn from the generator.  In
\* both modes the id is a draw that is not zero and not the id of a live
\* challenge: a step that stores a challenge adds exactly one id, not zero,
\* under which the challenge is filed, and leaves the live challenges alone.
C27_MockNonceFixed ==
    /\ [](\A i \in DOMAIN challenge_table :
            LET nonce == challenge_table[i].challenge_value IN
            /\ Len(nonce) = NonceLen
            /\ (mock_challenge => nonce = CCA_EXAMPLE_TOKEN_NONCE)
            /\ (~mock_challenge => nonce \in RandomNonces
                                    /\ nonce # CCA_EXAMPLE_TOKEN_NONCE))
    /\ [][Stores =>
            \E i \in IdSpace \ {0} :
                /\ i \notin DOMAIN challenge_table
                /\ DOMAIN challenge_table' = DOMAIN challenge_table \cup {i}
                /\ challenge_table'[i].challenge_id = i
                /\ challenge'[1] = challenge_table'[i]
                /\ \A j \in DOMAIN challenge_table :
                       challenge_table'[j] = challenge_table[j]]_vars

\* In mock mode two challenges with different ids are live and carry the
\* same nonce, the test vector's.
C27_Witness ==
    /\ mock_challenge
    /\ \E i, j \in DOMAIN challenge_table :
           /\ i # j
           /\ challenge_table[i].challenge_value = CCA_EXAMPLE_TOKEN_NONCE
           /\ challenge_table[j].challenge_value = CCA_EXAMPLE_TOKEN_NONCE
           /\ challenge_table[i].challenge_id # challenge_table[j].challenge_id

(***************************************************************************)
(* The KeyStore on its own, as its tests drive it: entries are stored and  *)
(* wrap_key is called with the wrapping keys a client can send.  Slot 1 of *)
(* req and data holds the last call and what it returned.                  *)
(***************************************************************************)
\* A second secret, stored under another key id.
OtherSecret == << 78, 111, 46 >>
StoredSecrets == {SkywalkerSecret, OtherSecret}

\* The wrapping keys of the calls: key types and algorithm names the key store
\* supports and does not, moduli and exponents that decode and that do not,
\* and an exponent RsaPublicKey::new refuses.
CallKeyTypes == {RSA_KEY_TYPE, "EC"}
CallAlgorithms == {RSA_PKCS15_ALGORITHM, RSA_OAEP_ALGORITHM, "A256KW"}
CallModuli ==
    { ModulusText,
      URL_SAFE_NO_PAD_encode(to_bytes_be(RsaPublicKey_from(ShortClientKey).n)),
      << "0", "p", "=" >> }
CallExponents == { ExponentText, << "A", "Q" >>, << "0", "p", "=" >> }
CallWrappingKeys ==
    { PublicWrappingKey(kty, alg, n, e) :
        kty \in CallKeyTypes, alg \in CallAlgorithms, n \in CallModuli, e \in CallExponents }

\* store.store_key(key_id, data)
call_store_key(key_id, secret) ==
    /\ keys' = store_key(keys, key_id, secret)
    /\ req' = [req EXCEPT ![1] = [op |-> "store_key", key_id |-> key_id]]
    /\ data' = [data EXCEPT ![1] = NoData]
    /\ UNCHANGED << challenge_table, challenger_lock, keystore_lock, mock_challenge,
                    pc, challenge, calls, session_nonce, result, resp >>

\* store.wrap_key(key_id, wrapping_key)
call_wrap_key(key_id, wrapping_key, rnd) ==
    /\ req' = [req EXCEPT ![1] = [op |-> "wrap_key", key_id |-> key_id,
                                  wrapping_key |-> wrapping_key, rnd |-> rnd]]
    /\ data' = [data EXCEPT ![1] = wrap_key(keys, key_id, wrapping_key, rnd)]
    /\ keys' = after_wrap_key(keys, key_id)
    /\ UNCHANGED << challenge_table, challenger_lock, keystore_lock,
                    mock_challenge, pc, challenge, calls, session_nonce, result, resp >>

KeyStoreNext ==
    \/ \E key_id \in KeyIds, secret \in StoredSecrets : call_store_key(key_id, secret)
    \/ \E key_id \in KeyIds, wrapping_key \in CallWrappingKeys, rnd \in Randomness :
           call_wrap_key(key_id, wrapping_key, rnd)

\* The store main builds; the key store has no part in the mock setting.
KeyStoreInit == Init /\ mock_challenge = FALSE

KeyStoreSpec == KeyStoreInit /\ [][KeyStoreNext]_vars

\* The last call was a wrap_key.
Wrapped == req[1].op = "wrap_key"

\* C13: wrap_key with a wrapping key whose kty is not "RSA" fails with
\* UnsupportedWrappingKeyType whatever the key id, the algorithm name, the
\* modulus and the exponent: the check comes first, so neither a text that
\* does not decode, nor an exponent that is refused, nor an unregistered key
\* id nor an unknown algorithm name gets to decide the result.
C13_KeyTypeFirst ==
    (Wrapped /\ req[1].wrapping_key.kty # "RSA")
        => data[1] = Err("UnsupportedWrappingKeyType")

\* A call with a key type other than RSA, a modulus that does not decode, an
\* unknown algorithm name and an unregistered key id was refused for its type.
C13_Witness ==
    /\ Wrapped
    /\ req[1].wrapping_key.kty = "EC"
    /\ ~URL_SAFE_NO_PAD_decode(req[1].wrapping_key.n).ok
    /\ req[1].wrapping_key.alg = "A256KW"
    /\ req[1].key_id \notin DOMAIN keys
    /\ data[1] = Err("UnsupportedWrappingKeyType")

\* The public key of the last wrap_key call passes every check that comes
\* before the lookup: RSA key type, modulus and exponent that decode, and a
\* public key RsaPublicKey::new accepts.
KeyAccepted ==
    /\ req[1].wrapping_key.kty = "RSA"
    /\ URL_SAFE_NO_PAD_decode(req[1].wrapping_key.n).ok
    /\ URL_SAFE_NO_PAD_decode(req[1].wrapping_key.e).ok
    /\ RsaPublicKey_new(FromBytesBE(URL_SAFE_NO_PAD_decode(req[1].wrapping_key.n).val),
                        FromBytesBE(URL_SAFE_NO_PAD_decode(req[1].wrapping_key.e).val)).ok

Registered == req[1].key_id \in DOMAIN keys

\* C14 as stated: wrap_key on a key id that is not registered fails with
\* KeyNotFound.
C14_Original ==
    (Wrapped /\ ~Registered) => data[1] = Err("KeyNotFound")

\* C14, amended: wrap_key on a key id that is not registered fails; it fails
\* with KeyNotFound when the wrapping key has passed the checks made before
\* the lookup, whatever the algorithm name, and otherwise with the error of
\* the first of those checks that fails.
C14_KeyNotFoundAfterKeyChecks ==
    (Wrapped /\ ~Registered)
        => /\ ~data[1].ok
           /\ data[1] = Err("KeyNotFound") <=> KeyAccepted
           /\ data[1].err \in {"KeyNotFound", "UnsupportedWrappingKeyType",
                               "Base64Decode", "Rsa"}

\* A call for an unregistered key id, with an accepted public key and an
\* unknown algorithm name, failed with KeyNotFound.
C14_Witness ==
    /\ Wrapped /\ ~Registered /\ KeyAccepted
    /\ req[1].wrapping_key.alg = "A256KW"
    /\ data[1] = Err("KeyNotFound")

SupportedAlgorithm == req[1].wrapping_key.alg \in {"RSA1_5", "RSA-OAEP"}

\* C15 as stated: wrap_key with an algorithm name other than "RSA1_5" and
\* "RSA-OAEP" fails with UnsupportedWrappingKeyAlgorithm.
C15_Original ==
    (Wrapped /\ ~SupportedAlgorithm) => data[1] = Err("UnsupportedWrappingKeyAlgorithm")

\* C15, amended: wrap_key with an algorithm name other than "RSA1_5" and
\* "RSA-OAEP" fails and encrypts nothing; it fails with
\* UnsupportedWrappingKeyAlgorithm exactly when the wrapping key has passed
\* the earlier checks and the key id is registered: the name is looked at
\* only after the entry has been looked up.
C15_AlgorithmCheckedLast ==
    (Wrapped /\ ~SupportedAlgorithm)
        => /\ ~data[1].ok
           /\ data[1] = Err("UnsupportedWrappingKeyAlgorithm")
                  <=> (KeyAccepted /\ Registered)

\* A call with an unknown algorithm name for a registered key id and an
\* accepted public key failed with UnsupportedWrappingKeyAlgorithm.
C15_Witness ==
    /\ Wrapped /\ ~SupportedAlgorithm /\ KeyAccepted /\ Registered
    /\ data[1] = Err("UnsupportedWrappingKeyAlgorithm")

\* The key pairs a caller generates.
ClientKeyPairs == {ClientKey, ShortClientKey}

\* The API-level wrapping key of a key pair: the modulus and the exponent of
\* its public half, as big-endian bytes in base64url.
WrappingKeyOf(priv_key, kty, alg) ==
    PublicWrappingKey(kty, alg,
        URL_SAFE_NO_PAD_encode(to_bytes_be(RsaPublicKey_from(priv_key).n)),
        URL_SAFE_NO_PAD_encode(to_bytes_be(RsaPublicKey_from(priv_key).e)))

\* URL_SAFE_NO_PAD.decode of the wrapped data: text of another engine is
\* refused.
DecodeCiphertext(data_base64) ==
    IF data_base64.encoding = "base64url-nopad" THEN Ok(data_base64.bytes)
    ELSE Err("Base64Decode")

\* RsaPrivateKey::decrypt: the message comes back when the ciphertext was
\* made for the public half of this key pair with this padding scheme.
decrypt(priv_key, padding, ciphertext) ==
    IF /\ ciphertext.n = priv_key.n
       /\ ciphertext.e = priv_key.e
       /\ ciphertext.padding = padding
    THEN Ok(ciphertext.msg)
    ELSE Err("Decryption")

\* The caller's half of the round trip: the wrapped data is decoded and
\* decrypted with the padding that matches the algorithm name.
unwrap_key(priv_key, alg, wrapped_data) ==
    LET ciphertext == DecodeCiphertext(wrapped_data.data) IN
    IF ~ciphertext.ok THEN ciphertext
    ELSE IF alg = RSA_PKCS15_ALGORITHM
    THEN decrypt(priv_key, "Pkcs1v15Encrypt", ciphertext.val)
    ELSE IF alg = RSA_OAEP_ALGORITHM
    THEN decrypt(priv_key, "Oaep-Sha256", ciphertext.val)
    ELSE Ok(<< >>)

\* The last call asked for a registered key under the public half of
\* priv_key, with the RSA key type and the algorithm name alg.
WrappedFor(priv_key, alg) ==
    /\ Wrapped /\ Registered
    /\ req[1].wrapping_key = WrappingKeyOf(priv_key, RSA_KEY_TYPE, alg)

\* The round trip of the last call: wrap_key succeeded and the caller gets
\* the stored data back.
RoundTrip(priv_key, alg) ==
    /\ data[1].ok
    /\ unwrap_key(priv_key, alg, data[1].val) = Ok(keys[req[1].key_id])

\* The stored data fits the modulus of priv_key with the padding of alg, and
\* the modulus is one RsaPublicKey::new takes.
Fits(priv_key, alg, secret) ==
    /\ Bits(priv_key.n) <= 4096
    /\ Len(secret) + (IF alg = RSA_PKCS15_ALGORITHM THEN 11 ELSE 66)
           <= Len(priv_key.n)

VerifierEnvs ==
    [discovery : Outcomes, endpoint : BOOLEAN, session : Outcomes,
     submission : Outcomes, token : Outcomes, realm : Realms, rego : RuleResults]
VerifierMediaTypes == {CCA_MEDIA_TYPE, AcceptList[1], "text/plain"}
VerifierReferenceValues == {None, Args_reference_values}

\* verify_with_veraison_instance(verifier, media_type, ..., reference_values, ...)
call_verify(env, media_type, challenge_value, reference_values) ==
    /\ pc[1] = "idle"
    /\ pc' = [pc EXCEPT ![1] = "done"]
    /\ req' = [req EXCEPT ![1] = [op |-> "verify", env |-> env,
                                  media_type |-> media_type,
                                  reference_values |-> reference_values]]
    /\ result' = [result EXCEPT ![1] =
                     verify_with_veraison_instance(env, media_type, reference_values)]
    /\ calls' = [calls EXCEPT ![1] =
                    verifier_run(env, media_type, reference_values).calls]
    /\ session_nonce' = [session_nonce EXCEPT ![1] =
                    new_session_nonce(verifier_run(env, media_type, reference_values),
                                      challenge_value)]
    /\ UNCHANGED << challenge_table, keys, challenger_lock, keystore_lock,
                    mock_challenge, challenge, data, resp >>

VerifierNext ==
    \E env \in VerifierEnvs, media_type \in VerifierMediaTypes,
       challenge_value \in RandomNonces,
       reference_values \in VerifierReferenceValues :
        call_verify(env, media_type, challenge_value, reference_values)

\* The verifier has no part in the mock setting either.
VerifierInit == Init /\ mock_challenge = FALSE

VerifierSpec == VerifierInit /\ [][VerifierNext]_vars

\* The verifier has run, and the names of the calls it made.
VerifierRan == req[1].op = "verify"
CallsMade(r) == {calls[r][i].call : i \in DOMAIN calls[r]}

\* The descriptor was fetched and does not advertise newChallengeResponseSession.
NotAdvertised == req[1].env.discovery = "ok" /\ ~req[1].env.endpoint

\* C19: when the descriptor of the verification service does not advertise
\* the newChallengeResponseSession capability, the verifier fails with
\* NoChallengeResponseEndpoint and takes no later step of the protocol: it
\* opens no session, submits no evidence, inspects no token and evaluates no
\* policy, however those steps would have come out.
C19_NoEndpointNoSession ==
    (VerifierRan /\ NotAdvertised)
        => /\ result[1] = Err("NoChallengeResponseEndpoint")
           /\ calls[1] = << Call("get_verification_api", "ok"),
                            Call("get_api_endpoint", "none") >>
           /\ CallsMade(1) \cap {"new_session", "challenge_response", "from_jwt_jwk",
                                 "emit_no_reference_values", "rego_eval"} = {}

\* The capability was missing from the descriptor of a service whose later
\* answers would all have been good, with a rule that would have held, and
\* the verifier failed with NoChallengeResponseEndpoint.
C19_Witness ==
    /\ VerifierRan
    /\ req[1].env = [AllGood EXCEPT !.endpoint = FALSE]
    /\ req[1].media_type = CCA_MEDIA_TYPE
    /\ req[1].reference_values.some
    /\ result[1] = Err("NoChallengeResponseEndpoint")

\* The remote exchange of the last run went well and the result token passed
\* the signature check and the parsing of its claims.
TokenAccepted ==
    /\ req[1].env.discovery = "ok" /\ req[1].env.endpoint
    /\ req[1].env.session = "ok" /\ req[1].env.submission = "ok"
    /\ req[1].env.token = "ok"

\* C21: when the media type of the evidence is no key of the policy binding
\* table and the remote exchange and the signature check succeeded, the
\* verifier fails with PolicyNotFound; this comes before the check for
\* missing reference values, so the diagnostics hook is not invoked and no
\* policy is evaluated.
C21_PolicyNotFoundFirst ==
    (VerifierRan /\ TokenAccepted /\ req[1].media_type \notin DOMAIN MEDIATYPES_TO_POLICY)
        => /\ result[1] = Err("PolicyNotFound")
           /\ CallsMade(1) \cap {"emit_no_reference_values", "rego_eval"} = {}

\* Evidence of an unregistered media type was appraised with no reference
\* values supplied, and the verifier failed with PolicyNotFound.
C21_Witness ==
    /\ VerifierRan /\ TokenAccepted
    /\ req[1].media_type = "text/plain"
    /\ ~req[1].reference_values.some
    /\ result[1] = Err("PolicyNotFound")

\* The last run got as far as the reference values and none were supplied.
NoReferenceValues ==
    /\ VerifierRan /\ TokenAccepted
    /\ req[1].media_type \in DOMAIN MEDIATYPES_TO_POLICY
    /\ ~req[1].reference_values.some

\* The diagnostics hook cannot report: the EAR has no CCA_REALM submodule, or
\* its realm is at the warning tier without an initial measurement.
NothingToReport == req[1].env.realm \in {"absent", "warning-no-rim"}

\* C22 as stated: with no reference values supplied and every earlier step
\* good, the verifier invokes the diagnostics hook and fails with
\* NoReferenceValues whatever the hook finds in the claims; it evaluates no
\* policy and returns no verdict.
C22_Original ==
    NoReferenceValues
        => /\ "emit_no_reference_values" \in CallsMade(1)
           /\ "rego_eval" \notin CallsMade(1)
           /\ result[1] = Err("NoReferenceValues")

\* C22, amended: with no reference values supplied and every earlier step
\* good, the verifier invokes the diagnostics hook and fails, evaluating no
\* policy and returning no verdict; it fails with NoReferenceValues when the
\* hook succeeds, and with the hook's own error (EARCCAError) when the EAR has
\* no CCA_REALM submodule or its realm is at the warning tier without an
\* initial measurement.
C22_FailsAfterDiagnostics ==
    NoReferenceValues
        => /\ "emit_no_reference_values" \in CallsMade(1)
           /\ "rego_eval" \notin CallsMade(1)
           /\ ~result[1].ok
           /\ result[1] = IF NothingToReport THEN Err("EARCCAError")
                          ELSE Err("NoReferenceValues")

\* With no reference values supplied, an EAR without a CCA_REALM submodule
\* made the verifier fail with the error of the diagnostics hook.
C22_Witness ==
    /\ NoReferenceValues
    /\ req[1].env.realm = "absent"
    /\ result[1] = Err("EARCCAError")
    /\ calls[1][Len(calls[1])] = Call("emit_no_reference_values", "err")

\* The last run got as far as the evaluation of the policy rule.
Evaluated ==
    /\ VerifierRan /\ TokenAccepted
    /\ req[1].media_type \in DOMAIN MEDIATYPES_TO_POLICY
    /\ req[1].reference_values.some

\* C23: strict verdict.  The verifier reports true only when the policy rule
\* was evaluated and its textual result is exactly "true"; a result of
\* "false" or an undefined one gives the verdict false, an evaluation error
\* (a missing rule among them) gives an error, and a run that does not get to
\* the rule gives an error.  The default policy gives "true" for claims with
\* matching reference values and "false" for non-matching ones, hence the
\* verdicts true and false.
C23_StrictVerdict ==
    VerifierRan
        => /\ result[1] = Ok(TRUE) <=> (Evaluated /\ req[1].env.rego = "true")
           /\ (Evaluated /\ req[1].env.rego \in {"false", "undefined"})
                  => result[1] = Ok(FALSE)
           /\ (Evaluated /\ req[1].env.rego = "err") => result[1] = Err("Policy")
           /\ ~Evaluated => ~result[1].ok
           /\ \A rim_matches \in BOOLEAN :
                  (Evaluated /\ req[1].env.rego = arm_cca_allow(rim_matches))
                      => result[1] = Ok(rim_matches)

\* The rule was evaluated to an undefined value and the verdict was false.
C23_Witness ==
    /\ Evaluated
    /\ req[1].env.rego = "undefined"
    /\ calls[1][Len(calls[1])] = Call("rego_eval", "undefined")
    /\ result[1] = Ok(FALSE)

\* The media types request_key advertises in the accept list of a challenge.
Advertised == {AcceptList[k] : k \in DOMAIN AcceptList}

\* C31: every media type that request_key advertises is a key of the table
\* that binds media types to policies, so a run of the verifier on evidence
\* submitted with an advertised Content-Type never fails with PolicyNotFound.
C31_AdvertisedHasPolicy ==
    (VerifierRan /\ req[1].media_type \in Advertised)
        => /\ result[1] # Err("PolicyNotFound")
           /\ req[1].media_type \in DOMAIN MEDIATYPES_TO_POLICY

\* The result token of submission r failed the signature check or the
\* parsing of its claims.
TokenRejected(r) ==
    \E i \in DOMAIN calls[r] : calls[r][i] = Call("from_jwt_jwk", "err")

\* C20: verification fails closed.  When the result token of a submission
\* fails the signature check or the parsing of its claims, the verifier
\* returns an error and no verdict, no policy is evaluated, wrap_key is not
\* called, and the submission is answered 403 with no key.
C20_FailsClosed ==
    \A r \in Requests :
        TokenRejected(r)
            => /\ ~result[r].ok
               /\ result[r] = Err("Ear")
               /\ "rego_eval" \notin CallsMade(r)
               /\ data[r] = NoData
               /\ resp[r] = NoResultResponse

\* The token of a submission was rejected, though the session and the
\* submission of the evidence had gone well, and it was answered 403.
C20_Witness ==
    \E r \in Requests :
        /\ IsSubmission(r) /\ pc[r] = "done"
        /\ TokenRejected(r)
        /\ Call("challenge_response", "ok") \in {calls[r][i] : i \in DOMAIN calls[r]}
        /\ resp[r].status = 403

(***************************************************************************)
(* The server at some point of a long run: the handlers of earlier         *)
(* requests have ended, no challenge is live, and the keystore lock is     *)
(* free or was poisoned by a submission that panicked in wrap_key.         *)
(***************************************************************************)
LongRunInit ==
    /\ challenge_table = Challenger_new
    /\ keys = StartupStore
    /\ challenger_lock = "free"
    /\ keystore_lock \in {"free", "poisoned"}
    /\ mock_challenge = FALSE
    /\ pc = [r \in Requests |-> "idle"]
    /\ req = [r \in Requests |-> NoRequest]
    /\ challenge = [r \in Requests |-> NoChallenge]
    /\ calls = [r \in Requests |-> << >>]
    /\ session_nonce = [r \in Requests |-> << >>]
    /\ result = [r \in Requests |-> NoResult]
    /\ data = [r \in Requests |-> NoData]
    /\ resp = [r \in Requests |-> NoResponse]

LongRunSpec == LongRunInit /\ [][Next]_vars

\* The state of the server after a submission panicked in wrap_key.
AfterFailedWrap ==
    /\ challenge_table = Challenger_new
    /\ keys = StartupStore
    /\ challenger_lock = "free"
    /\ keystore_lock = "poisoned"

\* The handler of request r finds the keystore lock poisoned in this step.
FindsPoisoned(r) ==
    /\ pc[r] = "verifying" /\ keystore_lock = "poisoned"
    /\ pc'[r] = "panicked" /\ result'[r] = Ok(TRUE)

\* The server takes the next request, and the verification task of every
\* submission in progress can end.
Accepting ==
    \A r \in Requests :
        /\ (pc[r] = "idle" /\ InOrder(r) /\ challenger_lock = "free")
               => /\ ENABLED (\E kr \in KeyRequests, nonce \in RequestNonces :
                                  request_key(r, kr[1], kr[2], nonce))
                  /\ ENABLED (\E challenge_id \in IdSpace,
                                 evidence_base64 \in EvidenceBodies :
                                  submit_evidence(r, challenge_id, evidence_base64))
        /\ pc[r] = "verifying"
               => ENABLED (\E content_type \in RequestContentTypes, env \in RequestEnvs :
                               verification_done(r, content_type, env))

ValidRedemption(r) ==
    /\ IsSubmission(r) /\ pc[r] \in {"done", "panicked"}
    /\ result[r] = Ok(TRUE)
    /\ Issuers(r) # {}
    /\ req[Issuer(r)].key_id \in DOMAIN keys
    /\ req[Issuer(r)].pubkey = RsaOaepKey

\* C30: a failed redemption never disables the service.  At any point of a
\* long run, after a submission that failed at the wrap step included, a
\* request_key followed by a submit_evidence for a registered key, with a
\* valid wrapping key and a positive verdict, is answered 200 with the key
\* wrapped for that request.
C30_ServiceSurvivesFailedWrap ==
    \A r \in Requests :
        ValidRedemption(r)
            => /\ resp[r].status = 200
               /\ SealedFor(resp[r].body, Issuer(r))

====
